---- MODULE Spec2Model ----
(***************************************************************************)
(* A model of the WhatsApp/Gemini relay: the messages table behind         *)
(* ConversationDBManager, the in-memory chat_histories of GeminiLLMClient  *)
(* and the dispatch WhatsAppLLMService.handle_incoming_message.  One       *)
(* dispatch is one asyncio task; code between two awaits runs atomically,  *)
(* so there is one action per await that really suspends (a store call, a  *)
(* thread-pool file call, the model call, the gateway call).               *)
(***************************************************************************)
EXTENDS Integers, Sequences, FiniteSets, TLC

VARIABLES
    db,             \* the rows of the messages table, in insertion (rowid) order
    chat_histories, \* GeminiLLMClient.chat_histories: phone -> list id, 0 when the key is absent
    lists,          \* the Python list objects created by hydration: list id -> sequence of turns
    received,       \* how many times handle_incoming_message has been called
    task,           \* per running dispatch: position, message, locals and what it has done so far
    fetched,        \* the last get_history call made on the store directly, and its result
    adapter,        \* ConversationDBManager: its _connection and the calls made on it directly
    webhook         \* receive_webhook: its position, the payload it handles and its response

vars == <<db, chat_histories, lists, received, task, fetched, adapter, webhook>>

-----------------------------------------------------------------------------
(* Bounds *)

\* Spec: the dispatches handled, one after the other
NumDispatches == 1

\* SpecStore: the rows written, and the largest limit asked for
MaxRows == 3

MaxLimit == 2

\* SpecAdapter: the calls made on the adapter
MaxCalls == 4

\* SpecFormat: the length of the histories formatted
MaxHistory == 3

\* SpecConcurrent: the dispatches in flight together
NumConcurrent == 2

\* SpecLongStore: the rows of one conversation in the table at the start
MaxStored == 22

-----------------------------------------------------------------------------
(* Values *)

\* Python None, for the optional string fields
None == "<None>"

\* Python truthiness of an Optional[str]
Truthy(s) == s # None /\ s # ""

\* the value of response.text when the quick accessor raises
RAISES == "<raises>"

\* str.strip() on the texts the model collaborator returns
Strip(s) ==
    CASE s = " Hi there " -> "Hi there"
      [] s = "   "        -> ""
      [] OTHER            -> s

\* the default of get_history's limit parameter
DefaultLimit == 20

PROMPT_FOR_INPUT == "Please provide a message or a file to process."
NO_CANDIDATES    == "Sorry, I couldn't generate a response for that input."
GENERIC_ISSUE    == "Sorry, I encountered an issue generating or understanding the response."
NOT_MEANINGFUL   == "Sorry, I couldn't generate a meaningful response for that."
SAFETY_GUIDELINE == "I cannot respond to that prompt due to safety guidelines."
APOLOGY          == "Sorry, I encountered an internal error."

\* the f-string of the safety-block return
BlockedMessage(block_reason) ==
    CASE block_reason = "SAFETY" ->
           "My response was blocked due to safety reasons (SAFETY). Please modify your prompt or file."
      [] OTHER ->
           "My response was blocked due to safety reasons (OTHER). Please modify your prompt or file."

\* the texts process_user_message returns in place of a reply
FailureTexts ==
    {PROMPT_FOR_INPUT, NO_CANDIDATES, GENERIC_ISSUE, NOT_MEANINGFUL,
     BlockedMessage("SAFETY"), BlockedMessage("OTHER")}

-----------------------------------------------------------------------------
(* The messages table *)

Row(sender_phone, role, message_id, type, text_content, local_file_path, timestamp) ==
    [sender_phone |-> sender_phone, role |-> role, message_id |-> message_id,
     type |-> type, text_content |-> text_content,
     local_file_path |-> local_file_path, timestamp |-> timestamp]

\* a write that puts the new row in the place of the newest one
ReplaceNewest(rows, row) ==
    IF rows = <<>> THEN <<row>> ELSE [rows EXCEPT ![Len(rows)] = row]

\* INSERT INTO messages ... ; commit
save_message(rows, row) == Append(rows, row)

\* the rowids of one conversation
RowsOf(rows, phone) == {i \in 1..Len(rows) : rows[i].sender_phone = phone}

\* the rows of K with the largest (Newest) or smallest (Oldest) timestamp
Newest(rows, K) == {i \in K : \A j \in K : rows[i].timestamp >= rows[j].timestamp}

Oldest(rows, K) == {i \in K : \A j \in K : rows[i].timestamp <= rows[j].timestamp}

\* the inner SELECT, ORDER BY timestamp DESC LIMIT n over the rowids K: the sets of
\* rows it can keep (rows of equal timestamp come in an order SQL leaves open, so
\* every choice among them is a possible result)
RECURSIVE TopRows(_, _, _)
TopRows(rows, K, n) ==
    IF n = 0 \/ K = {}
    THEN {{}}
    ELSE UNION {{{i} \cup rest : rest \in TopRows(rows, K \ {i}, n - 1)} :
                   i \in Newest(rows, K)}

\* the outer SELECT, ORDER BY timestamp ASC over the kept rows: the orders it can
\* present them in
RECURSIVE Ascending(_, _)
Ascending(rows, K) ==
    IF K = {}
    THEN {<<>>}
    ELSE UNION {{<<rows[i]>> \o rest : rest \in Ascending(rows, K \ {i})} :
                   i \in Oldest(rows, K)}

\* a query without its LIMIT: every row of the conversation, oldest first
QueryUnlimited(rows, phone, limit) == Ascending(rows, RowsOf(rows, phone))

\* every result get_history(sender_phone, limit) can return on these rows
get_history(rows, phone, limit) ==
    UNION {Ascending(rows, K) : K \in TopRows(rows, RowsOf(rows, phone), limit)}

-----------------------------------------------------------------------------
(* History formatting *)

TextPart(text) == [text |-> text]

Turn(role, parts) == [role |-> role, parts |-> parts]

\* a formatter that looks at the type only
IsTextRow(row) == row.type = "text"

\* the rows that yield a turn: type text and a non-empty text_content
HasTextPart(row) == row.type = "text" /\ Truthy(row.text_content)

FormatRow(row) ==
    Turn(IF row.role = "assistant" THEN "model" ELSE "user",
         <<TextPart(row.text_content)>>)

format_db_history_for_genai(db_history) ==
    LET kept == SelectSeq(db_history, HasTextPart)
    IN  [i \in 1..Len(kept) |-> FormatRow(kept[i])]

-----------------------------------------------------------------------------
(* Attachments *)

INLINE_FILE_SIZE_THRESHOLD_MB == 4

INLINE_FILE_SIZE_THRESHOLD_BYTES == INLINE_FILE_SIZE_THRESHOLD_MB * 1024 * 1024

SUPPORTED_GENAI_MIMETYPES ==
    {"image/png", "image/jpeg", "image/webp", "image/heic", "image/heif",
     "audio/wav", "audio/mp3", "audio/aiff", "audio/aac", "audio/ogg", "audio/flac",
     "video/mp4", "video/mpeg", "video/mov", "video/avi", "video/x-flv", "video/mpg",
     "video/webm", "video/wmv", "video/3gpp",
     "text/plain", "text/html", "text/css", "text/javascript", "application/x-javascript",
     "text/x-python", "application/x-python", "text/x-java-source", "text/x-java",
     "text/x-c", "text/x-csrc", "text/x-cpp", "text/x-c++src", "application/json",
     "text/markdown", "text/csv", "application/pdf", "text/rtf", "application/rtf",
     "text/xml", "application/xml"}

\* mimetypes.guess_type on the file names the model uses
GuessType(path) ==
    CASE path = "media/photo.png" -> "image/png"
      [] path = "media/wamid.1_photo.png" -> "image/png"
      [] path = "media/wamid.2_photo.png" -> "image/png"
      [] path = "media/voice.mp3" -> "audio/mpeg"
      [] path = "media/file.bin"  -> "application/octet-stream"
      [] OTHER                    -> None

\* os.path.splitext(path)[1].lower() on the same names
Extension(path) ==
    CASE path = "media/photo.png"  -> ".png"
      [] path = "media/wamid.1_photo.png" -> ".png"
      [] path = "media/wamid.2_photo.png" -> ".png"
      [] path = "media/wamid.1_file.qqq"  -> ".qqq"
      [] path = "media/wamid.2_file.qqq"  -> ".qqq"
      [] path = "media/voice.mp3"  -> ".mp3"
      [] path = "media/file.bin"   -> ".bin"
      [] path = "media/shot.heic"  -> ".heic"
      [] path = "media/file.qqq"   -> ".qqq"
      [] OTHER                     -> ""

\* the result of _get_supported_mime_type when it raises 415
UNSUPPORTED == "<415>"

get_supported_mime_type(path) ==
    LET guessed == GuessType(path)
        mime_type ==
            IF guessed # None THEN guessed
            ELSE IF Extension(path) = ".heic" THEN "image/heic"
            ELSE IF Extension(path) = ".heif" THEN "image/heif"
            ELSE UNSUPPORTED
    IN  IF mime_type \in SUPPORTED_GENAI_MIMETYPES THEN mime_type ELSE UNSUPPORTED

\* base64.b64encode(file_bytes).decode("utf-8"), the bytes being those of the file at path
Base64Of(path) == "base64:" \o path

\* the part _prepare_inline_file_part returns
InlinePart(path, mime_type) ==
    [inline_data |-> [mime_type |-> mime_type, data |-> Base64Of(path)]]

\* the part _upload_file returns; the upload response echoes the mime type it was given
UploadedPart(path, mime_type) ==
    [file_data |-> [mime_type |-> mime_type, file_uri |-> "files/" \o path]]

\* a size test that sends a file of exactly the threshold size to the upload
IsBelowThreshold(file_size) == file_size < INLINE_FILE_SIZE_THRESHOLD_BYTES

\* the branch of _process_file_for_api on the measured size
SendsInline(file_size) == file_size <= INLINE_FILE_SIZE_THRESHOLD_BYTES

-----------------------------------------------------------------------------
(* The model collaborator's raw result *)

\* what process_user_message reads of a response: prompt_feedback ("absent" when it
\* is missing or falsy, else its block_reason, "" when that is unset), whether
\* candidates[0] exists, and response.text (RAISES when the accessor raises)
Response(prompt_feedback, has_candidate, text) ==
    [prompt_feedback |-> prompt_feedback, has_candidate |-> has_candidate, text |-> text]

\* no response received (yet)
NoResponse == Response("absent", FALSE, "<no response>")

\* the try block of process_user_message runs to its end: response.text and
\* response.candidates[0].content are both read without an exception
TryReadsContent(r) == r.text # RAISES /\ r.has_candidate

\* the Content object of the first candidate
ModelContent(r) == Turn("model", <<TextPart(r.text)>>)

\* the except block: the text it returns
ExceptReturn(r) ==
    IF r.prompt_feedback # "absent"
    THEN IF Truthy(r.prompt_feedback)
         THEN BlockedMessage(r.prompt_feedback)
         ELSE GENERIC_ISSUE
    ELSE IF ~r.has_candidate
         THEN NO_CANDIDATES
         ELSE GENERIC_ISSUE

\* the final check on the generated text
TextIsEmpty(text) == text = None \/ Strip(text) = ""

\* the string process_user_message returns for response r
ReturnedText(r) ==
    IF TryReadsContent(r)
    THEN IF TextIsEmpty(r.text) THEN NOT_MEANINGFUL ELSE Strip(r.text)
    ELSE ExceptReturn(r)

\* whether process_user_message has appended the exchange to history when it returns
AppendsExchange(r) == TryReadsContent(r)

\* the return statement taken, named by the outcome it stands for
OutcomeOf(r) ==
    IF TryReadsContent(r)
    THEN IF TextIsEmpty(r.text) THEN "EmptyOrMalformed" ELSE "Success"
    ELSE IF r.prompt_feedback # "absent" /\ Truthy(r.prompt_feedback)
         THEN "SafetyBlocked"
         ELSE "EmptyOrMalformed"

-----------------------------------------------------------------------------
(* The dispatch: WhatsAppLLMService.handle_incoming_message *)

Message(id, type, sender_phone, body, timestamp, is_mine, local_file_path) ==
    [id |-> id, type |-> type, sender_phone |-> sender_phone, body |-> body,
     timestamp |-> timestamp, is_mine |-> is_mine, local_file_path |-> local_file_path]

NoMessage == Message(None, None, None, None, 0, FALSE, None)

NoAppend == [list |-> 0, at |-> 0]

\* no direct get_history call has been made
NoFetch == [sender_phone |-> None, limit |-> 0, at |-> 0, rows |-> <<>>]

\* the argument of a call that is given no row
NoRow == Row(None, None, None, None, None, None, 0)

\* ConversationDBManager after __init__: _connection is None ("none", else "open");
\* how it came to that, the calls made on it, and what the last one was given and raised;
\* changer is the last call after which _connection was another than before it, and
\* changer_raised what that call raised
NewAdapter ==
    [connection |-> "none", how |-> "never", calls |-> <<>>,
     row |-> NoRow, raised |-> "none", changer |-> "none", changer_raised |-> "none"]

\* the adapter once the lifespan startup has connected it
ConnectedAdapter ==
    [NewAdapter EXCEPT !.connection = "open", !.how = "connected", !.changer = "connect"]

\* message_data.media as receive_webhook reads it: its url and its filename, both
\* empty when the payload carries no media
Media(url, filename) == [url |-> url, filename |-> filename]

NoMedia == Media("", "")

\* a parsed WebhookPayload: its type, its data without the media, and the media
Payload(type, data, media) == [type |-> type, data |-> data, media |-> media]

\* receive_webhook before a request: nothing handled, nothing answered
NoRequest ==
    [pc |-> "idle", payload |-> Payload(None, NoMessage, NoMedia),
     download |-> "none",   \* how the media download ended: "saved" or "failed"
     response |-> "none"]   \* the status in the body receive_webhook returned

\* os.path.join(MEDIA_STORAGE_DIR, f"{id}_{base}.{ext}") for file names made of
\* letters and digits, which the two filters leave as they are
LocalFilePath(id, filename) == "media/" \o id \o "_" \o filename

\* a dispatch that has not been started
IdleTask ==
    [pc |-> "idle", msg |-> NoMessage,
     history |-> 0,              \* the list object `history` refers to
     file_exists |-> "unchecked", \* what os.path.exists found: "exists" or "missing"
     mime_type |-> None,         \* local of _process_file_for_api
     file_size |-> 0,            \* local of _process_file_for_api, once measured
     messages_to_send |-> <<>>,  \* the turns handed to generate_content_async
     response |-> NoResponse,    \* what generate_content_async returned
     ai_response_text |-> None,  \* what process_user_message returned
     outcome |-> "none",         \* the return or raise that ended process_user_message
     error |-> 0,                \* status code of the HTTPException raised
     appended |-> NoAppend,      \* where this dispatch appended its exchange
     saved |-> <<>>,             \* the rows this dispatch committed
     sends |-> <<>>,             \* the send_text calls this dispatch made
     failures |-> {},            \* the collaborator calls that failed on this dispatch
     raised |-> FALSE]           \* an exception has left handle_incoming_message

\* Step 1 without its early return: own messages are handled like any other
HandlesOwn(m) == FALSE

\* Step 1: ignore own messages
IgnoresOwn(m) == m.is_mine

\* a Step 2 that files every inbound row under one fixed number
UserRowUnderOne(m) ==
    Row("15551234567", "user", m.id, m.type, m.body, m.local_file_path, m.timestamp)

UserRow(m) ==
    Row(m.sender_phone, "user", m.id, m.type, m.body, m.local_file_path, m.timestamp)

AssistantRow(sender_phone, text, now) ==
    Row(sender_phone, "assistant", None, "text", text, None, now)

\* an outer except block that only logs
OnlyLogs(m) == FALSE

\* the guard of the generic error message in the outer except block
SendsApology(m) == ~m.is_mine /\ Truthy(m.sender_phone)

\* an outer except block with no try around its own send
ApologyUnguarded(call) ==
    CASE call = "save_user"      -> "step 2"
      [] call = "get_history"    -> "hydration"
      [] call = "file"           -> "step 8"
      [] call = "model"          -> "step 8"
      [] call = "save_assistant" -> "step 6"
      [] call = "send"           -> "step 7"
      [] OTHER                   -> "caller"

\* the except clause that ends the exception of a failed collaborator call; "caller"
\* when none does and it leaves handle_incoming_message
CaughtBy(call) ==
    CASE call = "save_user"      -> "step 2"
      [] call = "get_history"    -> "hydration"
      [] call = "file"           -> "step 8"
      [] call = "model"          -> "step 8"
      [] call = "save_assistant" -> "step 6"
      [] call = "send"           -> "step 7"
      [] call = "send_apology"   -> "final"
      [] OTHER                   -> "caller"

\* a collaborator call of this dispatch fails
Failed(rec, failed, call) ==
    IF failed
    THEN [rec EXCEPT !.failures = @ \cup {call},
                     !.raised = @ \/ CaughtBy(call) = "caller"]
    ELSE rec

\* an exception leaves process_user_message and reaches the outer except block
Raise(rec, status_code) ==
    [rec EXCEPT !.outcome = "Error", !.error = status_code,
                !.pc = IF SendsApology(rec.msg) THEN "send_apology" ELSE "done"]

\* a Step 5 that lets no response through
DropsEveryResponse(text) == TRUE

\* Step 5: the responses after which no reply is sent
IsNoReply(text) == ~Truthy(text) \/ text = SAFETY_GUIDELINE

\* a service for which a logged persistence failure is fatal once the model has answered
ReturnUnlessLogged(rec, text, outcome) ==
    IF rec.failures # {}
    THEN Raise(rec, 500)
    ELSE [rec EXCEPT !.ai_response_text = text, !.outcome = outcome,
                     !.pc = IF IsNoReply(text) THEN "done" ELSE "save_assistant"]

\* a service that sends the reply without Step 6
ReturnStraightToSend(rec, text, outcome) ==
    [rec EXCEPT !.ai_response_text = text, !.outcome = outcome,
                !.pc = IF IsNoReply(text) THEN "done" ELSE "send_reply"]

\* process_user_message returns text; the service validates it
Return(rec, text, outcome) ==
    [rec EXCEPT !.ai_response_text = text, !.outcome = outcome,
                !.pc = IF IsNoReply(text) THEN "done" ELSE "save_assistant"]

\* a user turn with the text part put before the file part
TextFirst(rec, hist, file_parts) ==
    LET input_parts ==
            (IF Truthy(rec.msg.body) THEN <<TextPart(rec.msg.body)>> ELSE <<>>) \o file_parts
    IN  IF input_parts = <<>>
        THEN Raise(rec, 500)
        ELSE [rec EXCEPT !.messages_to_send = hist \o <<Turn("user", input_parts)>>,
                         !.pc = "generate"]

\* the current user turn and the call of generate_content_async
Generate(rec, hist, file_parts) ==
    LET input_parts ==
            file_parts \o (IF Truthy(rec.msg.body) THEN <<TextPart(rec.msg.body)>> ELSE <<>>)
    IN  IF input_parts = <<>>
        THEN Raise(rec, 500)
        ELSE [rec EXCEPT !.messages_to_send = hist \o <<Turn("user", input_parts)>>,
                         !.pc = "generate"]

\* a _process_file_for_api that classifies the file before looking for it
ClassifiesFirst(rec, hist, exists) ==
    LET path == rec.msg.local_file_path
        checked == [rec EXCEPT !.file_exists = IF exists THEN "exists" ELSE "missing"]
    IN  IF Truthy(path)
        THEN IF get_supported_mime_type(path) = UNSUPPORTED
             THEN Raise(checked, 415)
             ELSE IF ~exists
                  THEN Raise(Failed(checked, TRUE, "file"), 404)
                  ELSE [checked EXCEPT !.mime_type = get_supported_mime_type(path),
                                       !.pc = "getsize"]
        ELSE Generate(rec, hist, <<>>)

\* process_user_message once `history` is bound: the existence and type checks of
\* _process_file_for_api, or straight to the model call
WithHistory(rec, hist, exists) ==
    LET path == rec.msg.local_file_path
        checked == [rec EXCEPT !.file_exists = IF exists THEN "exists" ELSE "missing"]
    IN  IF Truthy(path)
        THEN IF ~exists
             THEN Raise(Failed(checked, TRUE, "file"), 404)
             ELSE IF get_supported_mime_type(path) = UNSUPPORTED
                  THEN Raise(checked, 415)
                  ELSE [checked EXCEPT !.mime_type = get_supported_mime_type(path),
                                       !.pc = "getsize"]
        ELSE Generate(rec, hist, <<>>)

\* a process_user_message without its early return for an empty request
NeverShortCircuits(m) == FALSE

\* process_user_message has no text and no file
HasNoInput(m) == ~Truthy(m.body) /\ ~Truthy(m.local_file_path)

-----------------------------------------------------------------------------
(* Actions: one per stretch of code between two suspension points *)

\* a client that reads and uploads files on the event loop itself: while a task is
\* in its file read or upload no other task is resumed
UpdateOnLoop(t, rec) ==
    /\ \A u \in DOMAIN task : u # t => task[u].pc \notin {"read_file", "upload_file"}
    /\ task' = [task EXCEPT ![t] = rec]

\* the task of dispatch t goes on to its next suspension point
Update(t, rec) == task' = [task EXCEPT ![t] = rec]

MessageId(n) == "wamid." \o ToString(n)

\* handle_incoming_message is called with message m: Step 1, then the await of Step 2
Handle(t, m) ==
    /\ task[t].pc = "idle"
    /\ m.id = MessageId(received + 1)
    /\ received' = received + 1
    /\ Update(t, [task[t] EXCEPT !.msg = m,
                                 !.pc = IF IgnoresOwn(m) THEN "done" ELSE "save_user"])

\* the same, called by a caller this model leaves out
Receive(t, m) ==
    /\ Handle(t, m)
    /\ UNCHANGED <<db, chat_histories, lists, fetched, adapter, webhook>>

\* handle_incoming_message has returned and its task is gone
Finish(t) ==
    /\ task[t].pc = "done"
    /\ Update(t, IdleTask)
    /\ UNCHANGED <<db, chat_histories, lists, received, fetched, adapter, webhook>>

\* a cache that tests its entry for truth: an empty list counts as absent
HasTurns(h) == h # 0 /\ lists[h] # <<>>

\* sender_phone in self.chat_histories, for the list id h under the key
HasEntry(h) == h # 0

\* Step 2 ends (saved, or the failure logged), Steps 3-4 start: process_user_message
\* runs up to its first suspension
SaveUserMessage(t, saved, exists) ==
    LET rec == task[t]
        m   == rec.msg
        rec1 == IF saved
                THEN [rec EXCEPT !.saved = Append(@, UserRow(m))]
                ELSE Failed(rec, TRUE, "save_user")
        h   == chat_histories[m.sender_phone]
    IN  /\ rec.pc = "save_user"
        /\ db' = IF saved THEN save_message(db, UserRow(m)) ELSE db
        /\ Update(t, IF HasNoInput(m)
                     THEN Return(rec1, PROMPT_FOR_INPUT, "NoInput")
                     ELSE IF ~HasEntry(h)
                          THEN [rec1 EXCEPT !.pc = "get_history"]
                          ELSE WithHistory([rec1 EXCEPT !.history = h], lists[h], exists))
        /\ UNCHANGED <<chat_histories, lists, received, fetched, adapter, webhook>>

\* a cache that never loads the stored history
StartsEmpty(failed, db_history_rows) == <<>>

\* what _get_or_create_chat_history stores for a get_history result
FormattedHistory(failed, db_history_rows) ==
    IF failed \/ db_history_rows = <<>>
    THEN <<>>
    ELSE format_db_history_for_genai(db_history_rows)

\* get_history returns db_history_rows (or raises): _get_or_create_chat_history
\* stores a new list under the key and returns it
Hydrate(t, failed, exists) ==
    /\ task[t].pc = "get_history"
    /\ \E db_history_rows \in get_history(db, task[t].msg.sender_phone, DefaultLimit) :
          LET rec == Failed(task[t], failed, "get_history")
              formatted_history == FormattedHistory(failed, db_history_rows)
              h == Len(lists) + 1
          IN  /\ lists' = Append(lists, formatted_history)
              /\ chat_histories' = [chat_histories EXCEPT ![rec.msg.sender_phone] = h]
              /\ Update(t, WithHistory([rec EXCEPT !.history = h], formatted_history, exists))
    /\ UNCHANGED <<db, received, fetched, adapter, webhook>>

\* os.path.getsize returns file_size from its thread (or raises)
GetSize(t, failed, file_size) ==
    LET rec == task[t]
    IN  /\ rec.pc = "getsize"
        /\ Update(t, IF failed
                     THEN Raise(Failed(rec, TRUE, "file"), 500)
                     ELSE [rec EXCEPT !.file_size = file_size,
                                      !.pc = IF SendsInline(file_size)
                                             THEN "read_file" ELSE "upload_file"])
        /\ UNCHANGED <<db, chat_histories, lists, received, fetched, adapter, webhook>>

\* the file read of _prepare_inline_file_part returns (or raises)
ReadFile(t, failed) ==
    LET rec == task[t]
    IN  /\ rec.pc = "read_file"
        /\ Update(t, IF failed
                     THEN Raise(Failed(rec, TRUE, "file"), 500)
                     ELSE Generate(rec, lists[rec.history],
                                   <<InlinePart(rec.msg.local_file_path, rec.mime_type)>>))
        /\ UNCHANGED <<db, chat_histories, lists, received, fetched, adapter, webhook>>

\* genai.upload_file returns (or raises)
UploadFile(t, failed) ==
    LET rec == task[t]
    IN  /\ rec.pc = "upload_file"
        /\ Update(t, IF failed
                     THEN Raise(Failed(rec, TRUE, "file"), 500)
                     ELSE Generate(rec, lists[rec.history],
                                   <<UploadedPart(rec.msg.local_file_path, rec.mime_type)>>))
        /\ UNCHANGED <<db, chat_histories, lists, received, fetched, adapter, webhook>>

\* the two appends to `history`
AppendExchange(hist, current_user_content, model_response_content) ==
    hist \o <<current_user_content, model_response_content>>

\* a client that calls generate_content_async again when the call has raised
ModelRetried(t) ==
    /\ task[t].pc = "generate"
    /\ Update(t, [Failed(task[t], TRUE, "model") EXCEPT !.pc = "generate"])
    /\ UNCHANGED <<db, chat_histories, lists, received, fetched, adapter, webhook>>

\* generate_content_async raises
ModelFails(t) ==
    /\ task[t].pc = "generate"
    /\ Update(t, Raise(Failed(task[t], TRUE, "model"), 500))
    /\ UNCHANGED <<db, chat_histories, lists, received, fetched, adapter, webhook>>

\* generate_content_async returns r: the response is interpreted and Step 5 run
ModelReturns(t, r) ==
    LET rec == task[t]
        h   == rec.history
        current_user_content == rec.messages_to_send[Len(rec.messages_to_send)]
        rec1 == [rec EXCEPT !.response = r]
    IN  /\ rec.pc = "generate"
        /\ IF AppendsExchange(r)
           THEN /\ lists' = [lists EXCEPT
                               ![h] = AppendExchange(@, current_user_content, ModelContent(r))]
                /\ Update(t, Return([rec1 EXCEPT !.appended = [list |-> h, at |-> Len(lists[h]) + 1]],
                                    ReturnedText(r), OutcomeOf(r)))
           ELSE /\ lists' = lists
                /\ Update(t, Return(rec1, ReturnedText(r), OutcomeOf(r)))
        /\ UNCHANGED <<db, chat_histories, received, fetched, adapter, webhook>>

\* Step 6 ends (saved, or the failure logged); Step 7 starts
SaveAssistantMessage(t, saved, now) ==
    LET rec == task[t]
        row == AssistantRow(rec.msg.sender_phone, rec.ai_response_text, now)
    IN  /\ rec.pc = "save_assistant"
        /\ db' = IF saved THEN save_message(db, row) ELSE db
        /\ Update(t, [Failed(rec, ~saved, "save_assistant") EXCEPT
                         !.pc = "send_reply",
                         !.saved = IF saved THEN Append(@, row) ELSE @])
        /\ UNCHANGED <<chat_histories, lists, received, fetched, adapter, webhook>>

\* send_text_message rejects a number that is empty once its + signs are stripped
IsSendable(number) == number # "" /\ number # "+"

SendCall(number, message, delivered) ==
    [number |-> number, message |-> message, delivered |-> delivered]

\* a Step 7 whose failure falls through to the generic error message
ReplyFailureApologises(rec, delivered) ==
    [Failed(rec, ~delivered, "send") EXCEPT
        !.pc = IF delivered THEN "done" ELSE "send_apology",
        !.sends = Append(@, SendCall(rec.msg.sender_phone, rec.ai_response_text, delivered))]

\* Step 7: the call of send_text, and its failure logged
ReplySent(rec, delivered) ==
    [Failed(rec, ~delivered, "send") EXCEPT
        !.pc = "done",
        !.sends = Append(@, SendCall(rec.msg.sender_phone, rec.ai_response_text, delivered))]

\* Step 7: send_text returns or raises; either way the dispatch ends
SendReply(t, delivered) ==
    LET rec == task[t]
    IN  /\ rec.pc = "send_reply"
        /\ delivered => IsSendable(rec.msg.sender_phone)
        /\ Update(t, ReplySent(rec, delivered))
        /\ UNCHANGED <<db, chat_histories, lists, received, fetched, adapter, webhook>>

\* a Step 8 that also writes the generic error message to the store as an
\* assistant row
ApologySaved(t, delivered) ==
    LET rec == task[t]
        row == AssistantRow(rec.msg.sender_phone, APOLOGY, rec.msg.timestamp)
    IN  /\ rec.pc = "send_apology"
        /\ delivered => IsSendable(rec.msg.sender_phone)
        /\ db' = save_message(db, row)
        /\ Update(t, [Failed(rec, ~delivered, "send_apology") EXCEPT
                         !.pc = "done",
                         !.saved = Append(@, row),
                         !.sends = Append(@, SendCall(rec.msg.sender_phone,
                                                      APOLOGY, delivered))])
        /\ UNCHANGED <<chat_histories, lists, received, fetched, adapter, webhook>>

\* Step 8: the generic error message is sent, or the send fails and is logged
SendApology(t, delivered) ==
    LET rec == task[t]
    IN  /\ rec.pc = "send_apology"
        /\ delivered => IsSendable(rec.msg.sender_phone)
        /\ Update(t, [Failed(rec, ~delivered, "send_apology") EXCEPT
                         !.pc = "done",
                         !.sends = Append(@, SendCall(rec.msg.sender_phone,
                                                      APOLOGY, delivered))])
        /\ UNCHANGED <<db, chat_histories, lists, received, fetched, adapter, webhook>>

-----------------------------------------------------------------------------
(* The environment: what the gateway, the store, the file system, the model and
   the clock can hand to the program *)

Phones == {"", "15551234567", "15557654321"}

\* message_data.timestamp of the messages received, and int(time.time()) when
\* the reply is saved
ReceivedAt == 1700000100

SavedAt == 1700000101

\* (type, body, local_file_path) of the messages the webhook hands over
Shapes ==
    {<<"text", "Hello", None>>,
     <<"image", "Hello", "media/photo.png">>, <<"image", None, "media/photo.png">>,
     <<"image", None, "media/file.qqq">>, <<"document", None, "media/file.bin">>,
     <<"image", None, None>>}

\* the shapes received from the empty sender identifier
AnonymousShapes == {<<"text", "Hello", None>>, <<"image", None, "media/file.qqq">>}

Messages(t) ==
    {Message(MessageId(t), sh[1], "15551234567", sh[2], ReceivedAt, is_mine, sh[3]) :
        sh \in Shapes, is_mine \in BOOLEAN}
    \cup
    {Message(MessageId(t), sh[1], "", sh[2], ReceivedAt, is_mine, sh[3]) :
        sh \in AnonymousShapes, is_mine \in BOOLEAN}

\* response.text is read off candidates[0], so a text implies a candidate
Responses ==
    {Response("absent", FALSE, RAISES), Response("", TRUE, RAISES),
     Response("", TRUE, "   "), Response("", TRUE, None),
     Response("", TRUE, " Hi there "),
     Response("SAFETY", FALSE, RAISES), Response("SAFETY", TRUE, " Hi there "),
     Response("", TRUE, SAFETY_GUIDELINE)}

FileSizes == {INLINE_FILE_SIZE_THRESHOLD_BYTES, INLINE_FILE_SIZE_THRESHOLD_BYTES + 1}

\* what the table may hold when the process starts
EarlierRows ==
    <<Row("15551234567", "user", "wamid.0a", "text", "Earlier", None, 1700000000),
      Row("15551234567", "assistant", None, "text", "Earlier reply", None, 1700000000),
      Row("15551234567", "user", "wamid.0b", "image", None, "media/old.png", 1700000050)>>

InitialStores == {<<>>, EarlierRows}

-----------------------------------------------------------------------------
(* Specifications *)

InitOf(stores, slots) ==
    /\ db \in stores
    /\ chat_histories = [p \in Phones |-> 0]
    /\ lists = <<>>
    /\ received = 0
    /\ task = [t \in slots |-> IdleTask]
    /\ fetched = NoFetch
    /\ adapter = ConnectedAdapter
    /\ webhook = NoRequest

\* one dispatch at a time
Init == InitOf(InitialStores, {1})

Next ==
    \/ \E m \in Messages(received + 1) : received < NumDispatches /\ Receive(1, m)
    \/ \E saved, exists \in BOOLEAN : SaveUserMessage(1, saved, exists)
    \/ \E failed, exists \in BOOLEAN : Hydrate(1, failed, exists)
    \/ \E failed \in BOOLEAN, file_size \in FileSizes : GetSize(1, failed, file_size)
    \/ \E failed \in BOOLEAN : ReadFile(1, failed)
    \/ \E failed \in BOOLEAN : UploadFile(1, failed)
    \/ ModelFails(1)
    \/ \E r \in Responses : ModelReturns(1, r)
    \/ \E saved \in BOOLEAN : SaveAssistantMessage(1, saved, SavedAt)
    \/ \E delivered \in BOOLEAN : SendReply(1, delivered)
    \/ \E delivered \in BOOLEAN : SendApology(1, delivered)
    \/ Finish(1)

\* dispatches handled one after the other, in every environment
Spec == Init /\ [][Next]_vars

\* an await of the dispatch other than the call of the model ends: the store and
\* the file system are local, and the gateway is called through a client whose
\* timeout is 30 seconds
AwaitReturns ==
    \/ \E saved, exists \in BOOLEAN : SaveUserMessage(1, saved, exists)
    \/ \E failed, exists \in BOOLEAN : Hydrate(1, failed, exists)
    \/ \E failed \in BOOLEAN, file_size \in FileSizes : GetSize(1, failed, file_size)
    \/ \E failed \in BOOLEAN : ReadFile(1, failed)
    \/ \E failed \in BOOLEAN : UploadFile(1, failed)
    \/ \E saved \in BOOLEAN : SaveAssistantMessage(1, saved, SavedAt)
    \/ \E delivered \in BOOLEAN : SendReply(1, delivered)
    \/ \E delivered \in BOOLEAN : SendApology(1, delivered)
    \/ Finish(1)

\* the dispatch under a scheduler that resumes every task whose await has ended;
\* generate_content_async is awaited without a timeout, so nothing makes it end
SpecLive == Init /\ [][Next]_vars /\ WF_vars(AwaitReturns)

\* a table that holds more rows of one conversation than get_history returns: the
\* rows written last carry the lowest timestamps, and the first row is an image
LongRows ==
    [i \in 1..MaxStored |->
        Row("15551234567",
            IF i % 2 = 1 THEN "user" ELSE "assistant",
            IF i % 2 = 1 THEN "wamid.0" \o ToString(i) ELSE None,
            IF i = 1 THEN "image" ELSE "text",
            IF i = 1 THEN None ELSE "Old " \o ToString(i),
            IF i = 1 THEN "media/old.png" ELSE None,
            IF i > DefaultLimit
            THEN 1699990000 + i - DefaultLimit
            ELSE 1699990000 + MaxStored - DefaultLimit + i)]

\* one dispatch, the process having started on the long table
InitLongStore == InitOf({LongRows}, {1})

SpecLongStore == InitLongStore /\ [][Next]_vars

-----------------------------------------------------------------------------
(* Interleaved dispatches: each webhook delivery is its own task, and the tasks
   take turns at their suspension points *)

ConcurrentMessages(n) ==
    {Message(MessageId(n), "text", "15551234567", "Hello", ReceivedAt, FALSE, None),
     Message(MessageId(n), "image", "15551234567", "Hello", ReceivedAt, FALSE, "media/photo.png"),
     Message(MessageId(n), "image", "15557654321", None, ReceivedAt, FALSE, "media/photo.png")}

ConcurrentResponses ==
    {Response("", TRUE, " Hi there ")}

InitConcurrent == InitOf({<<>>}, 1..NumConcurrent)

NextConcurrent ==
    \E t \in 1..NumConcurrent :
        \/ \E m \in ConcurrentMessages(received + 1) : t = received + 1 /\ Receive(t, m)
        \/ SaveUserMessage(t, TRUE, TRUE)
        \/ Hydrate(t, FALSE, TRUE)
        \/ \E file_size \in FileSizes : GetSize(t, FALSE, file_size)
        \/ ReadFile(t, FALSE)
        \/ UploadFile(t, FALSE)
        \/ \E r \in ConcurrentResponses : ModelReturns(t, r)
        \/ SaveAssistantMessage(t, TRUE, SavedAt)
        \/ SendReply(t, TRUE)

SpecConcurrent == InitConcurrent /\ [][NextConcurrent]_vars

-----------------------------------------------------------------------------
(* The store on its own: ConversationDBManager.save_message and get_history called
   with any turns and limits, on an open connection *)

StorePhones == {"15551234567", "15557654321"}

\* the timestamps rows carry: message_data.timestamp for user rows, the clock of
\* the process for assistant rows, so neither order of the two is excluded
StoreTimestamps == {ReceivedAt, SavedAt}

\* the turns the n-th save_message call may be given
StoreTurns(n) ==
    UNION {{Row(phone, "user", MessageId(n), "text", "Hello", None, timestamp),
            Row(phone, "user", MessageId(n), "image", None, "media/photo.png", timestamp),
            Row(phone, "assistant", None, "text", "Reply " \o ToString(n), None, timestamp)} :
              phone \in StorePhones, timestamp \in StoreTimestamps}

\* save_message(...) commits
StoreSave(row) ==
    /\ Len(db) < MaxRows
    /\ db' = save_message(db, row)
    /\ UNCHANGED <<chat_histories, lists, received, task, fetched, adapter, webhook>>

\* get_history(sender_phone, limit) returns
StoreQuery(sender_phone, limit) ==
    /\ \E rows \in get_history(db, sender_phone, limit) :
          fetched' = [sender_phone |-> sender_phone, limit |-> limit,
                      at |-> Len(db), rows |-> rows]
    /\ UNCHANGED <<db, chat_histories, lists, received, task, adapter, webhook>>

InitStore == InitOf({<<>>}, {1})

NextStore ==
    \/ \E row \in StoreTurns(Len(db) + 1) : StoreSave(row)
    \/ \E sender_phone \in StorePhones, limit \in 1..MaxLimit : StoreQuery(sender_phone, limit)

SpecStore == InitStore /\ [][NextStore]_vars

-----------------------------------------------------------------------------
(* The adapter and its connection: connect, close, save_message and get_history
   called one after the other, from construction on *)

\* a guard that only knows an adapter that was never connected
NeverConnected(a) == a.how = "never"

\* if self._connection is None: raise ConnectionError("Database not connected.")
NotConnected(a) == a.connection = "none"

\* a close that insists on an open connection
CloseOrRaise(a) ==
    IF a.connection # "none"
    THEN [a EXCEPT !.connection = "none", !.how = "closed", !.raised = "none"]
    ELSE [a EXCEPT !.raised = "ConnectionError"]

\* close(): the connection is closed and forgotten, or the warning is logged
Closed(a) ==
    IF a.connection # "none"
    THEN [a EXCEPT !.connection = "none", !.how = "closed", !.raised = "none"]
    ELSE [a EXCEPT !.raised = "none"]

\* how a connect on a closed adapter ends: aiosqlite.connect raises, or
\* _create_messages_table raises on the connection just opened, or neither does
ConnectOutcomes == {"connected", "open_failed", "table_failed"}

\* a connect whose handler re-raises without forgetting the connection it opened
ConnectedKeepsOpened(a, outcome) ==
    IF a.connection # "none"
    THEN [a EXCEPT !.raised = "none"]
    ELSE IF outcome = "connected"
         THEN [a EXCEPT !.connection = "open", !.how = outcome, !.raised = "none"]
         ELSE [a EXCEPT !.connection = IF outcome = "table_failed" THEN "open" ELSE "none",
                        !.how = outcome, !.raised = "Exception"]

\* connect(): returns at once on an open connection; else opens the file and creates
\* the table, or closes what it opened (if it opened one), forgets it and re-raises
Connected(a, outcome) ==
    IF a.connection # "none"
    THEN [a EXCEPT !.raised = "none"]
    ELSE IF outcome = "connected"
         THEN [a EXCEPT !.connection = "open", !.how = outcome, !.raised = "none"]
         ELSE [a EXCEPT !.connection = "none", !.how = outcome, !.raised = "Exception"]

\* the call that made b of a is remembered if _connection is not what it was
Noted(a, b) ==
    IF b.connection # a.connection
    THEN [b EXCEPT !.changer = b.calls[Len(b.calls)], !.changer_raised = b.raised]
    ELSE b

\* the call is noted with the row it was given
Called(a, call, row) == [a EXCEPT !.calls = Append(@, call), !.row = row]

\* the rows the adapter is given
AdapterTurns ==
    {Row("15551234567", "user", "wamid.1", "text", "Hello", None, ReceivedAt),
     Row("15551234567", "assistant", None, "text", "Hi there", None, SavedAt)}

AdapterConnect(outcome) ==
    /\ Len(adapter.calls) < MaxCalls
    /\ adapter' = Noted(adapter, Connected(Called(adapter, "connect", NoRow), outcome))
    /\ UNCHANGED <<db, chat_histories, lists, received, task, fetched, webhook>>

AdapterClose ==
    /\ Len(adapter.calls) < MaxCalls
    /\ adapter' = Noted(adapter, Closed(Called(adapter, "close", NoRow)))
    /\ UNCHANGED <<db, chat_histories, lists, received, task, fetched, webhook>>

\* save_message(...) raises at once, or inserts and commits, or raises what the
\* insert raised
AdapterSave(row, ok) ==
    /\ Len(adapter.calls) < MaxCalls
    /\ LET a == Called(adapter, "save_message", row)
       IN  IF NotConnected(a)
           THEN adapter' = [a EXCEPT !.raised = "ConnectionError"] /\ db' = db
           ELSE IF ok
                THEN adapter' = [a EXCEPT !.raised = "none"] /\ db' = save_message(db, row)
                ELSE adapter' = [a EXCEPT !.raised = "Exception"] /\ db' = db
    /\ UNCHANGED <<chat_histories, lists, received, task, fetched, webhook>>

\* get_history(sender_phone) raises at once, or returns the rows, or raises what
\* the query raised
AdapterQuery(sender_phone, ok) ==
    /\ Len(adapter.calls) < MaxCalls
    /\ LET a == Called(adapter, "get_history", NoRow)
       IN  IF NotConnected(a)
           THEN adapter' = [a EXCEPT !.raised = "ConnectionError"] /\ fetched' = fetched
           ELSE IF ok
                THEN /\ adapter' = [a EXCEPT !.raised = "none"]
                     /\ \E rows \in get_history(db, sender_phone, DefaultLimit) :
                           fetched' = [sender_phone |-> sender_phone, limit |-> DefaultLimit,
                                       at |-> Len(db), rows |-> rows]
                ELSE adapter' = [a EXCEPT !.raised = "Exception"] /\ fetched' = fetched
    /\ UNCHANGED <<db, chat_histories, lists, received, task, webhook>>

InitAdapter ==
    /\ db = <<>>
    /\ chat_histories = [p \in Phones |-> 0]
    /\ lists = <<>>
    /\ received = 0
    /\ task = [t \in {1} |-> IdleTask]
    /\ fetched = NoFetch
    /\ adapter = NewAdapter
    /\ webhook = NoRequest

NextAdapter ==
    \/ \E outcome \in ConnectOutcomes : AdapterConnect(outcome)
    \/ AdapterClose
    \/ \E row \in AdapterTurns, ok \in BOOLEAN : AdapterSave(row, ok)
    \/ \E ok \in BOOLEAN : AdapterQuery("15551234567", ok)

SpecAdapter == InitAdapter /\ [][NextAdapter]_vars

-----------------------------------------------------------------------------
(* The formatter on its own: _format_db_history_for_genai called on any rows *)

\* the rows a history may hold: any role, text or not, with or without content
FormatRows ==
    {Row("15551234567", role, None, type, text_content, None, ReceivedAt) :
        role \in {"user", "assistant", "system"},
        type \in {"text", "image"},
        text_content \in {"Hello", "", None}}

\* the sequences of at most n elements of S
RECURSIVE SeqsUpTo(_, _)
SeqsUpTo(S, n) ==
    IF n = 0
    THEN {<<>>}
    ELSE LET shorter == SeqsUpTo(S, n - 1)
         IN  shorter \cup {Append(q, x) : q \in {r \in shorter : Len(r) = n - 1}, x \in S}

\* the caller holds db_history in fetched.rows
InitFormat ==
    /\ db = <<>>
    /\ chat_histories = [p \in Phones |-> 0]
    /\ lists = <<>>
    /\ received = 0
    /\ task = [t \in {1} |-> IdleTask]
    /\ adapter = ConnectedAdapter
    /\ webhook = NoRequest
    /\ \E db_history \in SeqsUpTo(FormatRows, MaxHistory) :
          fetched = [sender_phone |-> "15551234567", limit |-> DefaultLimit,
                     at |-> 0, rows |-> db_history]

\* _format_db_history_for_genai(db_history) returns its new list
Format ==
    /\ lists = <<>>
    /\ lists' = <<format_db_history_for_genai(fetched.rows)>>
    /\ UNCHANGED <<db, chat_histories, received, task, fetched, adapter, webhook>>

NextFormat == Format

SpecFormat == InitFormat /\ [][NextFormat]_vars

-----------------------------------------------------------------------------
(* The webhook endpoint: receive_webhook, from a parsed payload to its response,
   with the dispatch it delegates to *)

\* a handler that hands every received message to the service, own ones too
DelegatesOwn(p) == p.type = "message_received"

\* the payloads receive_webhook hands on: message_received, not sent by the bot
Delegates(p) == p.type = "message_received" /\ ~p.data.is_mine

\* the messages whose media receive_webhook downloads
Downloads(p) ==
    /\ Delegates(p)
    /\ p.data.type \in {"image", "video", "document", "sticker", "audio"}
    /\ p.media # NoMedia /\ p.media.url # ""

\* (type, body, media) of the message a payload carries
PayloadShapes ==
    {<<"text", "Hello", NoMedia>>,
     <<"image", "Hello", Media("http://api/media/1", "photo.png")>>,
     <<"image", None, Media("http://api/media/2", "file.qqq")>>,
     <<"image", None, NoMedia>>}

Payloads(n) ==
    {Payload(type, Message(MessageId(n), sh[1], "15551234567", sh[2], ReceivedAt, is_mine, None),
             sh[3]) :
        type \in {"message_received", "message_ack"}, sh \in PayloadShapes, is_mine \in BOOLEAN}

\* the request goes on with message m: the service is awaited
Delegate(rec, m) ==
    /\ Handle(1, m)
    /\ webhook' = [rec EXCEPT !.pc = "dispatch"]

\* the handler returns its body
Answer(rec) == [rec EXCEPT !.pc = "answered", !.response = "success"]

\* POST /webhook with payload p, up to the first await of the handler
WebhookReceives(p) ==
    LET rec == [webhook EXCEPT !.payload = p]
    IN  /\ webhook.pc = "idle"
        /\ p.data.id = MessageId(received + 1)
        /\ IF ~Delegates(p)
           THEN webhook' = Answer(rec) /\ UNCHANGED <<received, task>>
           ELSE IF Downloads(p)
                THEN webhook' = [rec EXCEPT !.pc = "download"] /\ UNCHANGED <<received, task>>
                ELSE Delegate(rec, p.data)
        /\ UNCHANGED <<db, chat_histories, lists, fetched, adapter>>

\* the media download ends: the file is saved and its path put on the message, or
\* the failure is logged and the path left None; the service is called either way
WebhookDownload(saved) ==
    LET p == webhook.payload
        rec == [webhook EXCEPT !.download = IF saved THEN "saved" ELSE "failed"]
        path == IF saved THEN LocalFilePath(p.data.id, p.media.filename) ELSE None
    IN  /\ webhook.pc = "download"
        /\ Delegate(rec, [p.data EXCEPT !.local_file_path = path])
        /\ UNCHANGED <<db, chat_histories, lists, fetched, adapter>>

\* handle_incoming_message has returned, or raised and the error was logged
WebhookAnswers ==
    /\ webhook.pc = "dispatch"
    /\ task[1].pc = "done"
    /\ webhook' = Answer(webhook)
    /\ UNCHANGED <<db, chat_histories, lists, received, task, fetched, adapter>>

InitWebhook == InitOf({<<>>}, {1})

NextWebhook ==
    \/ \E p \in Payloads(received + 1) : WebhookReceives(p)
    \/ \E saved \in BOOLEAN : WebhookDownload(saved)
    \/ \E saved, exists \in BOOLEAN : SaveUserMessage(1, saved, exists)
    \/ \E failed, exists \in BOOLEAN : Hydrate(1, failed, exists)
    \/ \E failed \in BOOLEAN, file_size \in FileSizes : GetSize(1, failed, file_size)
    \/ \E failed \in BOOLEAN : ReadFile(1, failed)
    \/ \E failed \in BOOLEAN : UploadFile(1, failed)
    \/ ModelFails(1)
    \/ \E r \in Responses : ModelReturns(1, r)
    \/ \E saved \in BOOLEAN : SaveAssistantMessage(1, saved, SavedAt)
    \/ \E delivered \in BOOLEAN : SendReply(1, delivered)
    \/ \E delivered \in BOOLEAN : SendApology(1, delivered)
    \/ WebhookAnswers

SpecWebhook == InitWebhook /\ [][NextWebhook]_vars

-----------------------------------------------------------------------------
(* What the claims speak of *)

Running == DOMAIN task

IsDone(t) == task[t].pc = "done"

\* the session history of a conversation identifier: the list under its key
SessionHistory(phone) ==
    IF chat_histories[phone] = 0 THEN <<>> ELSE lists[chat_histories[phone]]

\* the user turn dispatch t handed to the model, and the history it put before it
UserTurn(t) == task[t].messages_to_send[Len(task[t].messages_to_send)]

HistoryPrefix(t) == SubSeq(task[t].messages_to_send, 1, Len(task[t].messages_to_send) - 1)

\* the exchange of dispatch t stands at position i of turns
ExchangeAt(turns, i, t) ==
    /\ i >= 1 /\ i + 1 <= Len(turns)
    /\ turns[i] = UserTurn(t)
    /\ turns[i + 1] = ModelContent(task[t].response)

\* two dispatches of one conversation that have both ended in Success
BothSucceeded(t1, t2) ==
    /\ t1 # t2
    /\ IsDone(t1) /\ IsDone(t2)
    /\ task[t1].msg.sender_phone = task[t2].msg.sender_phone
    /\ task[t1].outcome = "Success" /\ task[t2].outcome = "Success"

\* the exchange of dispatch t is in the session history of its conversation, where
\* t appended it
ExchangeKept(t) ==
    /\ task[t].appended.list = chat_histories[task[t].msg.sender_phone]
    /\ ExchangeAt(SessionHistory(task[t].msg.sender_phone), task[t].appended.at, t)

\* C1: once two dispatches of one conversation have both ended in Success, the
\* session history of the conversation holds both exchanges, each as its user turn
\* followed by its model turn, at different places
C1_BothExchangesKept ==
    \A t1, t2 \in Running :
        BothSucceeded(t1, t2) =>
            /\ ExchangeKept(t1) /\ ExchangeKept(t2)
            /\ task[t1].appended.at # task[t2].appended.at

\* the request of dispatch t was built on a history that held the exchange of u
BuiltOn(t, u) ==
    /\ task[u].appended.list = task[t].history
    /\ ExchangeAt(HistoryPrefix(t), task[u].appended.at, u)

\* C2: of two dispatches of one conversation that both appended an exchange, one
\* sent the model a history that already held the other's user and model turns
C2_RequestsBuiltInSeries ==
    \A t1, t2 \in Running :
        BothSucceeded(t1, t2) => BuiltOn(t1, t2) \/ BuiltOn(t2, t1)

\* C3: once a conversation identifier has a session entry, no step replaces the
\* entry by another (newly hydrated) list
C3_HydratedAtMostOnce ==
    [][\A phone \in Phones :
          chat_histories[phone] # 0 => chat_histories'[phone] = chat_histories[phone]]_vars

\* the rows of role assistant among the rows a dispatch committed
AssistantRows(rows) == {i \in 1..Len(rows) : rows[i].role = "assistant"}

\* C4: the step on which the model returns changes the session history of the
\* conversation exactly when the outcome is Success; a candidate with null or blank
\* text is EmptyOrMalformed and leaves the history as it was
C4_AppendsIffSuccess ==
    [][\A t \in Running :
          task[t].pc = "generate" /\ task'[t].response # NoResponse =>
              /\ (lists'[task[t].history] # lists[task[t].history]
                    <=> task'[t].outcome = "Success")
              /\ (task'[t].response.has_candidate /\ TextIsEmpty(task'[t].response.text)
                    => /\ task'[t].outcome = "EmptyOrMalformed"
                       /\ lists'[task[t].history] = lists[task[t].history])]_vars

\* C5: a dispatch whose model outcome is EmptyOrMalformed or SafetyBlocked never
\* calls the sender and never persists an assistant row
C5_SilentDrop ==
    \A t \in Running :
        task[t].outcome \in {"EmptyOrMalformed", "SafetyBlocked"} =>
            /\ task[t].sends = <<>>
            /\ AssistantRows(task[t].saved) = {}

\* the result carries a safety-block indicator
IsBlocked(r) == r.prompt_feedback # "absent" /\ Truthy(r.prompt_feedback)

\* C6: after the model has returned a result with a safety-block indicator, the
\* session history is the history the request was built on: nothing was appended
C6_BlockedLeavesHistory ==
    \A t \in Running :
        IsBlocked(task[t].response) =>
            /\ lists[task[t].history] = HistoryPrefix(t)
            /\ task[t].appended = NoAppend

\* the outcome the fixed precedence assigns to a raw result: block indicator first,
\* then a missing or unreadable candidate, then blank text, else Success
PrecedenceOutcome(r) ==
    IF IsBlocked(r) THEN "SafetyBlocked"
    ELSE IF ~r.has_candidate \/ r.text = RAISES THEN "EmptyOrMalformed"
    ELSE IF r.text = None \/ Strip(r.text) = "" THEN "EmptyOrMalformed"
    ELSE "Success"

\* C7: the outcome of every model result is the one the fixed precedence assigns:
\* SafetyBlocked for a block indicator whatever the candidates and text, then
\* EmptyOrMalformed for no usable candidate, then for blank text, else Success
C7_FixedPrecedence ==
    \A t \in Running :
        task[t].response # NoResponse =>
            task[t].outcome = PrecedenceOutcome(task[t].response)

\* C8: a step that leaves a dispatch holding a self-sent message has ended that
\* dispatch at once: no row saved, no session entry read or made, no model
\* response, no send, and store and session cache are as they were
C8_OwnMessageIgnored ==
    [][\A t \in Running :
          task'[t].msg.is_mine =>
              /\ task'[t] = [IdleTask EXCEPT !.msg = task'[t].msg, !.pc = "done"]
              /\ UNCHANGED <<db, chat_histories, lists>>]_vars

\* a self-sent message with an attachment has been dispatched while the store held rows
C8_Witness ==
    \E t \in Running :
        /\ IsDone(t) /\ task[t].msg.is_mine
        /\ Truthy(task[t].msg.local_file_path)
        /\ db # <<>>

\* the rows of one conversation, in insertion order
ConversationRows(phone) == SelectSeq(db, LAMBDA row : row.sender_phone = phone)

\* a finished dispatch of a non-self-sent text from a conversation without earlier
\* rows, on which no collaborator failed and the model gave non-blank text
IsScenarioA(t) ==
    /\ IsDone(t)
    /\ ~task[t].msg.is_mine
    /\ task[t].msg.type = "text" /\ Truthy(task[t].msg.body)
    /\ Cardinality(RowsOf(db, task[t].msg.sender_phone)) = Len(task[t].saved)
    /\ task[t].failures = {}
    /\ task[t].response.has_candidate
    /\ task[t].response.text \notin {RAISES, None, "", "   "}
    /\ ~IsBlocked(task[t].response)

\* C9: a non-self-sent text from a conversation with no earlier rows, with store,
\* model and sender succeeding and non-blank model text, leaves exactly a user/text
\* row followed by an assistant/text row with the generated text, and exactly one
\* send of that same text
C9_ScenarioA ==
    \A t \in Running :
        IsScenarioA(t) =>
            LET m == task[t].msg
                generated == task[t].ai_response_text
            IN  /\ generated = Strip(task[t].response.text)
                /\ Len(task[t].saved) = 2
                /\ task[t].saved[1] =
                      [sender_phone |-> m.sender_phone, role |-> "user", message_id |-> m.id,
                       type |-> "text", text_content |-> m.body,
                       local_file_path |-> None, timestamp |-> m.timestamp]
                /\ task[t].saved[2].role = "assistant"
                /\ task[t].saved[2].type = "text"
                /\ task[t].saved[2].sender_phone = m.sender_phone
                /\ task[t].saved[2].text_content = generated
                /\ ConversationRows(m.sender_phone) = task[t].saved
                /\ task[t].sends =
                      <<[number |-> m.sender_phone, message |-> generated, delivered |-> TRUE]>>

\* such a dispatch has finished
C9_Witness ==
    \E t \in Running :
        /\ IsScenarioA(t)
        /\ task[t].msg.sender_phone = "15551234567"
        /\ task[t].outcome = "Success"
        /\ Len(task[t].sends) = 1

\* what follows a propagated error: one apology attempt, no reply, no assistant row
ApologyOnly(t) ==
    /\ task[t].pc \in {"send_apology", "done"}
    /\ AssistantRows(task[t].saved) = {}
    /\ task[t].pc = "send_apology" => task[t].sends = <<>>
    /\ task[t].pc = "done" =>
          /\ Len(task[t].sends) = 1
          /\ task[t].sends[1].number = task[t].msg.sender_phone
          /\ task[t].sends[1].message = "Sorry, I encountered an internal error."

\* C10 as stated: every error propagated for a non-self-sent message is followed by
\* exactly one attempt to send the apology, no reply and no assistant row
C10_AsStated ==
    \A t \in Running :
        task[t].outcome = "Error" /\ ~task[t].msg.is_mine => ApologyOnly(t)

\* C10: every error propagated for a non-self-sent message that has a non-empty
\* sender identifier is followed by exactly one attempt to send the apology, no
\* reply and no assistant row, and the dispatch ends whether or not the send succeeds
C10_ApologyWhenAddressable ==
    \A t \in Running :
        task[t].outcome = "Error" /\ ~task[t].msg.is_mine /\ task[t].msg.sender_phone # ""
            => ApologyOnly(t)

\* an unsupported attachment has been answered by the apology, and the send failed
C10_Witness ==
    \E t \in Running :
        /\ IsDone(t) /\ task[t].outcome = "Error" /\ task[t].error = 415
        /\ task[t].msg.sender_phone = "15551234567"
        /\ task[t].sends = <<SendCall("15551234567", APOLOGY, FALSE)>>

\* C11: no exception ever leaves a dispatch, whichever of the store appends, the
\* hydration query, attachment processing, the model call, the reply send and the
\* apology send fail; after a failed apology send the dispatch has ended with that
\* one send attempt and nothing else done
C11_NeverRaises ==
    \A t \in Running :
        /\ ~task[t].raised
        /\ "send_apology" \in task[t].failures =>
              /\ IsDone(t)
              /\ task[t].sends = <<SendCall(task[t].msg.sender_phone, APOLOGY, FALSE)>>

\* a dispatch has ended after its inbound append, its hydration query, its model
\* call and its apology send all failed
C11_Witness ==
    \E t \in Running :
        /\ IsDone(t)
        /\ task[t].failures = {"save_user", "get_history", "model", "send_apology"}

\* the persistence calls: the two appends and the hydration query
PersistenceCalls == {"save_user", "save_assistant", "get_history"}

\* C12: a finished dispatch on which persistence calls failed, and nothing else, and
\* whose model outcome is Success has called the sender exactly once, with the
\* generated reply, and has sent no apology
C12_PersistenceNeverBlocks ==
    \A t \in Running :
        /\ IsDone(t) /\ ~task[t].msg.is_mine
        /\ task[t].failures # {}
        /\ task[t].failures \subseteq PersistenceCalls \cup {"send"}
        /\ PrecedenceOutcome(task[t].response) = "Success"
        => /\ Len(task[t].sends) = 1
           /\ task[t].sends[1].number = task[t].msg.sender_phone
           /\ task[t].sends[1].message = Strip(task[t].response.text)
           /\ task[t].sends[1].message # APOLOGY

\* a reply has been delivered although both appends and the hydration query failed
C12_Witness ==
    \E t \in Running :
        /\ IsDone(t)
        /\ task[t].failures = PersistenceCalls
        /\ task[t].outcome = "Success"
        /\ task[t].sends = <<SendCall("15551234567", "Hi there", TRUE)>>

\* C13: once the reply send has failed the dispatch has ended with that one send
\* attempt, of the reply and not of the apology, and the assistant row it had
\* written is still the newest row of the store
C13_FailedReplyNotRetried ==
    \A t \in Running :
        "send" \in task[t].failures =>
            /\ IsDone(t)
            /\ Len(task[t].sends) = 1
            /\ task[t].sends[1].message = task[t].ai_response_text
            /\ task[t].sends[1].message # APOLOGY
            /\ ~task[t].sends[1].delivered
            /\ "save_assistant" \notin task[t].failures =>
                  /\ db # <<>>
                  /\ db[Len(db)].role = "assistant"
                  /\ db[Len(db)].sender_phone = task[t].msg.sender_phone
                  /\ db[Len(db)].text_content = task[t].ai_response_text

\* the send of a generated reply has failed after its assistant row was written
C13_Witness ==
    \E t \in Running :
        /\ IsDone(t)
        /\ task[t].failures = {"send"}
        /\ task[t].outcome = "Success"
        /\ Len(task[t].saved) = 2

\* C14: every text a dispatch hands to the sender is the generic apology or the
\* trimmed text of its Success outcome; none is a text that stands for a failure
C14_OnlyReplyOrApologySent ==
    \A t \in Running :
        \A i \in 1..Len(task[t].sends) :
            \/ task[t].sends[i].message = APOLOGY
            \/ /\ task[t].outcome = "Success"
               /\ task[t].sends[i].message = Strip(task[t].response.text)
               /\ task[t].sends[i].message \notin FailureTexts

\* dispatch t leaves _get_or_create_chat_history on this step, having found no entry
GetReturns(t) ==
    /\ task[t].pc = "get_history" /\ task'[t].pc # "get_history"
    /\ chat_histories[task[t].msg.sender_phone] = 0

\* the list get returned is the entry of the identifier
StoredAsEntry(t) ==
    /\ task'[t].history # 0
    /\ chat_histories'[task[t].msg.sender_phone] = task'[t].history

\* the list get returned is the formatter's output on a result of the recent-rows
\* query, and empty when the store holds no row of the identifier
IsFormattedStore(t) ==
    LET phone == task[t].msg.sender_phone
    IN  /\ lists'[task'[t].history] \in
              {format_db_history_for_genai(rows) : rows \in get_history(db, phone, DefaultLimit)}
        /\ RowsOf(db, phone) = {} => lists'[task'[t].history] = <<>>

\* C15 as stated: for an identifier without an entry, get returns the formatted
\* recent rows of the store (empty when there are none) and stores them as the entry
C15_AsStated ==
    [][\A t \in Running :
          GetReturns(t) => StoredAsEntry(t) /\ IsFormattedStore(t)]_vars

\* C15: for an identifier without an entry, get stores what it returns as the entry;
\* when the recent-rows query succeeds that is the formatted recent rows of the
\* store (empty when there are none), and when the query fails it is the empty list
C15_HydratesFromStore ==
    [][\A t \in Running :
          GetReturns(t) =>
              /\ StoredAsEntry(t)
              /\ IF "get_history" \in task'[t].failures
                 THEN lists'[task'[t].history] = <<>>
                 ELSE IsFormattedStore(t)]_vars

\* a session entry has been hydrated with the earlier text rows and the new one
C15_Witness ==
    \E t \in Running :
        /\ task[t].history # 0
        /\ chat_histories[task[t].msg.sender_phone] = task[t].history
        /\ "get_history" \notin task[t].failures
        /\ Len(lists[task[t].history]) = 3
        /\ task[t].pc = "generate"

\* C16: a get call that starts when its identifier has an entry, the list an earlier
\* call returned, returns that same list, empty or not, without a store query and
\* without touching the entry
C16_SecondGetSameList ==
    [][\A t \in Running :
          /\ task[t].pc = "save_user" /\ task'[t].pc # "save_user"
          /\ chat_histories[task[t].msg.sender_phone] # 0
          => /\ task'[t].pc # "get_history"
             /\ task'[t].history = chat_histories[task[t].msg.sender_phone]
             /\ \E u \in Running \ {t} : task[u].history = task'[t].history
             /\ UNCHANGED <<chat_histories, lists>>]_vars

\* a second dispatch has been handed the empty list the first one hydrated
C16_Witness ==
    \E t, u \in Running :
        /\ t # u
        /\ task[t].history # 0 /\ task[u].history = task[t].history
        /\ lists[task[t].history] = <<>>
        /\ chat_histories[task[t].msg.sender_phone] = task[t].history
        /\ task[t].pc = "getsize" /\ task[u].pc = "getsize"

\* the query whose result is in fetched was made on the store as it is now
IsFresh == fetched # NoFetch /\ fetched.at = Len(db)

\* the last n elements of a sequence
LastOf(seq, n) == SubSeq(seq, Len(seq) - n + 1, Len(seq))

\* C17: when the store holds more than limit rows of a conversation, the recent-rows
\* query returns exactly the limit rows written last for that conversation, in the
\* order they were written, whatever timestamps they carry
C17_LastWrittenRows ==
    IsFresh /\ Cardinality(RowsOf(db, fetched.sender_phone)) > fetched.limit =>
        /\ Len(fetched.rows) = fetched.limit
        /\ \A i \in 1..Len(fetched.rows) : fetched.rows[i].sender_phone = fetched.sender_phone
        /\ fetched.rows = LastOf(ConversationRows(fetched.sender_phone), fetched.limit)

\* C18: a query for the conversation of the row appended last, made before any
\* other append, returns a sequence that holds that row with every field as it
\* was appended
C18_AppendedRowReturned ==
    /\ IsFresh /\ db # <<>>
    /\ db[Len(db)].sender_phone = fetched.sender_phone
    => \E i \in 1..Len(fetched.rows) : fetched.rows[i] = db[Len(db)]

\* the turns of the rows that are of type text with a non-empty text, in the order
\* of the rows: role model for a stored assistant, user for any other role
RECURSIVE TextTurns(_)
TextTurns(rows) ==
    IF rows = <<>>
    THEN <<>>
    ELSE LET row == Head(rows)
             role == IF row.role = "assistant" THEN "model" ELSE "user"
         IN  IF row.type = "text" /\ row.text_content \notin {None, ""}
             THEN <<[role |-> role, parts |-> <<[text |-> row.text_content]>>]>>
                      \o TextTurns(Tail(rows))
             ELSE TextTurns(Tail(rows))

\* C19: format returns, in input order, one single-text-part turn per row of type
\* text with non-empty text and nothing for the other rows, with role model for a
\* stored assistant and user for every other role, and it returns on every input
C19_FormatKeepsTextRows ==
    /\ ENABLED Format \/ lists # <<>>
    /\ lists # <<>> =>
          /\ lists[1] = TextTurns(fetched.rows)
          /\ \A i \in 1..Len(lists[1]) :
                /\ Len(lists[1][i].parts) = 1
                /\ lists[1][i].role \in {"model", "user"}

\* a history of an assistant text, an image and a text of another role was formatted
C19_Witness ==
    /\ lists # <<>>
    /\ Len(fetched.rows) = 3
    /\ fetched.rows[1].role = "assistant" /\ fetched.rows[1].type = "text"
    /\ fetched.rows[1].text_content = "Hello"
    /\ fetched.rows[2].type = "image" /\ fetched.rows[2].text_content = "Hello"
    /\ fetched.rows[3].role = "system" /\ fetched.rows[3].type = "text"
    /\ fetched.rows[3].text_content = "Hello"
    /\ Len(lists[1]) = 2
    /\ lists[1][1].role = "model" /\ lists[1][2].role = "user"

\* dispatch t has a file part: the first part of the user turn it built
HasFilePart(t) ==
    /\ Truthy(task[t].msg.local_file_path)
    /\ task[t].messages_to_send # <<>>

FilePart(t) == UserTurn(t).parts[1]

\* C20: a file of at most 4,194,304 bytes is read for an inline part and becomes
\* one, a larger file is uploaded and becomes an uploaded part; never the reverse
C20_InlineUpToThreshold ==
    \A t \in Running :
        /\ task[t].pc = "read_file" => task[t].file_size <= 4194304
        /\ task[t].pc = "upload_file" => task[t].file_size > 4194304
        /\ HasFilePart(t) =>
              /\ task[t].file_size <= 4194304 => DOMAIN FilePart(t) = {"inline_data"}
              /\ task[t].file_size > 4194304 => DOMAIN FilePart(t) = {"file_data"}

\* a file of exactly 4,194,304 bytes has become an inline part
C20_Witness ==
    \E t \in Running :
        /\ HasFilePart(t)
        /\ task[t].file_size = 4194304
        /\ FilePart(t) = [inline_data |->
                             [mime_type |-> "image/png", data |-> "base64:media/photo.png"]]

\* the attachment of dispatch t has been looked for
FileChecked(t) ==
    Truthy(task[t].msg.local_file_path) /\ task[t].file_exists # "unchecked"

\* the attachment of dispatch t is of a type the model accepts
IsSupportedFile(t) == get_supported_mime_type(task[t].msg.local_file_path) # UNSUPPORTED

\* the size of the attachment was never asked for and nothing of it was read
FileUntouched(t) ==
    /\ task[t].file_size = 0
    /\ task[t].mime_type = None
    /\ task[t].messages_to_send = <<>>
    /\ task[t].pc \notin {"getsize", "read_file", "upload_file", "generate"}

\* C21: attachment processing checks in a fixed order and stops at the first
\* failure: a missing file is a 404 whatever its extension, an existing file of
\* undetermined or unsupported type a 415 before its size or contents are read,
\* the upload is started only for an existing supported file above the threshold,
\* and every failure of the size call, the read or the upload is a 500
C21_ChecksInOrder ==
    \A t \in Running :
        FileChecked(t) =>
            /\ task[t].file_exists = "missing" =>
                  /\ task[t].outcome = "Error" /\ task[t].error = 404
                  /\ FileUntouched(t)
            /\ task[t].file_exists = "exists" /\ ~IsSupportedFile(t) =>
                  /\ task[t].outcome = "Error" /\ task[t].error = 415
                  /\ FileUntouched(t)
            /\ task[t].pc = "upload_file" =>
                  /\ task[t].file_exists = "exists" /\ IsSupportedFile(t)
                  /\ task[t].file_size > 4194304
            /\ task[t].file_exists = "exists" /\ "file" \in task[t].failures =>
                  /\ IsSupportedFile(t)
                  /\ task[t].outcome = "Error" /\ task[t].error = 500
            /\ task[t].error \in {0, 404, 415, 500}

\* a missing file with an unrecognized extension was refused as not found
C21_Witness ==
    \E t \in Running :
        /\ task[t].msg.local_file_path = "media/file.qqq"
        /\ task[t].file_exists = "missing"
        /\ task[t].error = 404
        /\ IsDone(t)

\* a call was made on the adapter on this step
AdapterCalled(call) ==
    /\ Len(adapter'.calls) = Len(adapter.calls) + 1
    /\ adapter'.calls[Len(adapter'.calls)] = call

\* C22: every close call leaves the adapter disconnected and raises nothing, from a
\* connected adapter as from one already closed, never connected or failed to
\* connect, and on those it changes nothing; the rows are untouched
C22_CloseIdempotent ==
    [][AdapterCalled("close") =>
          /\ adapter'.connection = "none"
          /\ adapter'.raised = "none"
          /\ db' = db
          /\ adapter.connection = "open" => adapter'.how = "closed"
          /\ adapter.connection = "none" => adapter'.how = adapter.how]_vars

\* a connected adapter has been closed twice in a row
C22_Witness ==
    /\ adapter.calls = <<"connect", "close", "close">>
    /\ adapter.how = "closed"
    /\ adapter.connection = "none" /\ adapter.raised = "none"

\* C23: on an adapter that is not connected, because it never was, because connect
\* failed or because it was closed, save_message and get_history raise the
\* not-connected error and leave the rows, the connection and the last result as
\* they were
C23_NotConnectedRaises ==
    [][/\ adapter.connection = "none"
       /\ AdapterCalled("save_message") \/ AdapterCalled("get_history")
       => /\ adapter'.raised = "ConnectionError"
          /\ db' = db
          /\ fetched' = fetched
          /\ adapter'.connection = "none"
          /\ adapter'.how = adapter.how]_vars

\* an append was refused after a close, rows written before it still in the table
C23_Witness ==
    /\ adapter.calls = <<"connect", "save_message", "close", "save_message">>
    /\ adapter.raised = "ConnectionError"
    /\ Len(db) = 1

\* C24: a save_message call that returns has added exactly its row, as given, at
\* the end of the table; every other call, and a save_message that raises, leaves
\* the table as it was: rows once written are never changed or removed
C24_AppendOnly ==
    [][/\ \A i \in 1..Len(db) : i <= Len(db') /\ db'[i] = db[i]
       /\ IF AdapterCalled("save_message") /\ adapter'.raised = "none"
          THEN db' = db \o <<adapter'.row>>
          ELSE db' = db]_vars

\* two rows were appended and the connection closed, the rows kept
C24_Witness ==
    /\ adapter.calls = <<"connect", "save_message", "save_message", "close">>
    /\ Len(db) = 2
    /\ db[1].role = "user" /\ db[2].role = "assistant"

\* neither a text nor a file path came with the message of dispatch t
BothAbsent(t) == ~Truthy(task[t].msg.body) /\ ~Truthy(task[t].msg.local_file_path)

\* process_user_message of dispatch t runs its first stretch on this step
ClientCalled(t) == task[t].pc = "save_user" /\ task'[t].pc # "save_user"

\* C25: with no text and no file path process_user_message returns the fixed
\* prompt for input: nothing is raised, the model is not called, no file is
\* looked at, and the cache of histories is neither read nor filled nor changed
C25_NoInputPrompts ==
    [][\A t \in Running :
          ClientCalled(t) /\ BothAbsent(t) =>
              /\ task'[t].outcome = "NoInput"
              /\ task'[t].ai_response_text = PROMPT_FOR_INPUT
              /\ task'[t].error = 0 /\ ~task'[t].raised
              /\ task'[t].messages_to_send = <<>> /\ task'[t].response = NoResponse
              /\ task'[t].file_exists = "unchecked" /\ task'[t].mime_type = None
              /\ task'[t].history = 0
              /\ chat_histories' = chat_histories /\ lists' = lists
              /\ task'[t].pc \notin {"get_history", "getsize", "read_file",
                                     "upload_file", "generate", "send_apology"}]_vars

\* an image message without caption and without file was answered with the prompt
C25_Witness ==
    \E t \in Running :
        /\ BothAbsent(t) /\ task[t].msg.type = "image"
        /\ task[t].outcome = "NoInput"
        /\ task[t].pc = "save_assistant"
        /\ chat_histories[task[t].msg.sender_phone] = 0

\* part is a file part: inline data or a reference to an uploaded file
IsFilePart(part) == DOMAIN part \in {{"inline_data"}, {"file_data"}}

\* the number of parts the message of dispatch t calls for
PartsDue(t) ==
    (IF Truthy(task[t].msg.local_file_path) THEN 1 ELSE 0)
    + (IF Truthy(task[t].msg.body) THEN 1 ELSE 0)

\* C26: the turn handed to the model for the new message has role user and its
\* parts are the file part first when a file path came, then the text part when
\* a text came: one part when only one of them came, and never no part at all
C26_FileThenText ==
    \A t \in Running :
        /\ task[t].pc = "generate" => task[t].messages_to_send # <<>>
        /\ task[t].messages_to_send # <<>> =>
              LET parts == UserTurn(t).parts
              IN  /\ UserTurn(t).role = "user"
                  /\ Len(parts) = PartsDue(t) /\ Len(parts) \in {1, 2}
                  /\ Truthy(task[t].msg.local_file_path) => IsFilePart(parts[1])
                  /\ Truthy(task[t].msg.body) =>
                        parts[Len(parts)] = TextPart(task[t].msg.body)

\* an image with a caption is before the model as a file part and then a text part
C26_Witness ==
    \E t \in Running :
        /\ task[t].pc = "generate"
        /\ Len(UserTurn(t).parts) = 2
        /\ IsFilePart(UserTurn(t).parts[1])
        /\ UserTurn(t).parts[2] = TextPart("Hello")

\* generate_content_async is called for dispatch t on this step
ModelCalled(t) == task[t].pc # "generate" /\ task'[t].pc = "generate"

\* the call of generate_content_async of dispatch t ends on this step
ModelCallEnds(t) == task[t].pc = "generate" /\ task'[t] # task[t]

\* C27: the model is called at most once for a call of process_user_message, so at
\* most once for a dispatched message: the call is made before any result or
\* failure of the model exists, whatever ends it ends process_user_message too,
\* nothing leads back to it, and a call that raised leaves as an error of status 500
C27_ModelCalledOnce ==
    [][\A t \in Running :
          /\ ModelCalled(t) =>
                /\ task[t].outcome = "none" /\ task[t].response = NoResponse
                /\ "model" \notin task[t].failures
          /\ ModelCallEnds(t) =>
                /\ task'[t].pc \in {"save_assistant", "done", "send_apology"}
                /\ task'[t].outcome # "none"
                /\ "model" \in task'[t].failures =>
                      /\ task'[t].outcome = "Error" /\ task'[t].error = 500
                      /\ task'[t].response = NoResponse
                      /\ task'[t].ai_response_text = None
          /\ task[t].outcome # "none" => task'[t].pc # "generate"]_vars

\* the one call of the model raised and the dispatch ended with the generic error
\* message and no reply
C27_Witness ==
    \E t \in Running :
        /\ "model" \in task[t].failures
        /\ task[t].outcome = "Error" /\ task[t].error = 500
        /\ IsDone(t)
        /\ Len(task[t].sends) = 1 /\ task[t].sends[1].message = APOLOGY

\* C28: every dispatch of a message that is not the bot's own eventually
\* completes, even when the model never answers on its own, because the call of
\* the model is ended by a timeout and the generic error message follows
C28_DispatchCompletes == (task[1].pc = "save_user") ~> (task[1].pc = "done")

\* dispatch t is suspended in the file read, the upload or the call of the model
Suspended(t) == task[t].pc \in {"read_file", "upload_file", "generate"}

\* a message of a conversation other than that of dispatch t is dispatched as task u
StartsBeside(t, u) ==
    \E m \in ConcurrentMessages(received + 1) :
        /\ m.sender_phone # task[t].msg.sender_phone
        /\ u = received + 1
        /\ Receive(u, m)

\* the await that task u is suspended in ends and the task runs on
Resumes(u) ==
    \/ SaveUserMessage(u, TRUE, TRUE)
    \/ Hydrate(u, FALSE, TRUE)
    \/ \E file_size \in FileSizes : GetSize(u, FALSE, file_size)
    \/ ReadFile(u, FALSE)
    \/ UploadFile(u, FALSE)
    \/ \E r \in ConcurrentResponses : ModelReturns(u, r)
    \/ SaveAssistantMessage(u, TRUE, SavedAt)
    \/ SendReply(u, TRUE)

\* C29: while a dispatch is suspended in a file read, an upload or a call of the
\* model, a dispatch of another conversation can be started and can take each of
\* its steps up to its completion: the suspended dispatch holds nothing they need
C29_OthersRunOn ==
    \A t, u \in Running :
        t # u /\ Suspended(t) =>
            /\ task[u].pc = "idle" /\ u = received + 1 => ENABLED StartsBeside(t, u)
            /\ /\ task[u].pc \notin {"idle", "done"}
               /\ task[u].msg.sender_phone # task[t].msg.sender_phone
               => ENABLED Resumes(u)

\* the dispatch of 15557654321, received second, has been completed with its
\* reply sent while the dispatch of 15551234567 is still in its file read
C29_Witness ==
    /\ task[1].msg.sender_phone = "15551234567" /\ task[1].pc = "read_file"
    /\ task[2].msg.sender_phone = "15557654321" /\ task[2].pc = "done"
    /\ Len(task[2].sends) = 1 /\ task[2].sends[1].delivered
    /\ task[2].outcome = "Success"

\* Step 2 of dispatch t has been attempted: its row is committed or its failure logged
UserAppendAttempted(t) ==
    \/ task[t].saved # <<>> /\ task[t].saved[1].role = "user"
    \/ "save_user" \in task[t].failures

\* the cache of histories has been read for dispatch t, or process_user_message
\* is past the point where it reads it
CacheRead(t) ==
    \/ task[t].history # 0
    \/ task[t].pc \in {"get_history", "getsize", "read_file", "upload_file", "generate"}

\* generate_content_async has been called for dispatch t
ModelInvoked(t) == task[t].messages_to_send # <<>>

\* generate_content_async has returned a response for dispatch t
ModelReturned(t) == task[t].response # NoResponse

\* Step 6 of dispatch t is under way or over
AssistantAppendAttempted(t) ==
    \/ task[t].pc = "save_assistant"
    \/ \E i \in 1..Len(task[t].saved) : task[t].saved[i].role = "assistant"
    \/ "save_assistant" \in task[t].failures

\* Step 6 of dispatch t is over: its row is committed or its failure logged
AssistantAppendOver(t) == AssistantAppendAttempted(t) /\ task[t].pc # "save_assistant"

\* Step 7 of dispatch t is under way or over: send_text was called with the reply
ReplySendInvoked(t) ==
    \/ task[t].pc = "send_reply"
    \/ \E i \in 1..Len(task[t].sends) : task[t].sends[i].message = task[t].ai_response_text

\* process_user_message of dispatch t has returned a text
ClientReturned(t) == task[t].outcome \notin {"none", "Error"}

\* the order of the steps of dispatch t, its reply being due once `answered` holds
StepsInOrder(t, answered) ==
    /\ (CacheRead(t) \/ ModelInvoked(t) \/ task[t].outcome # "none") => UserAppendAttempted(t)
    /\ ModelInvoked(t) => CacheRead(t)
    /\ AssistantAppendAttempted(t) =>
          answered /\ (ReplySendInvoked(t) => AssistantAppendOver(t))
    /\ ReplySendInvoked(t) => answered /\ AssistantAppendOver(t)

\* C30 as stated: within a dispatch the inbound append is attempted before
\* the cache is read and before the model is called, the assistant append only
\* after the model has returned and before the sender is called, and the sender is
\* never called with a reply before the model has returned for that message
C30_AsStated == \A t \in Running : StepsInOrder(t, ModelReturned(t))

\* C30, amended: the same order, the assistant append and the reply coming only
\* after process_user_message has returned a text: after the model has returned,
\* or, for a message with neither text nor file, without the model being called
C30_StepsInOrder ==
    \A t \in Running :
        /\ StepsInOrder(t, ClientReturned(t))
        /\ ClientReturned(t) => (ModelReturned(t) \/ (BothAbsent(t) /\ ~ModelInvoked(t)))
        /\ ModelReturned(t) => ModelInvoked(t)

\* an image with a caption went through every step: user row, file read, model,
\* assistant row, reply
C30_Witness ==
    \E t \in Running :
        /\ IsDone(t)
        /\ task[t].msg.type = "image" /\ Truthy(task[t].msg.body)
        /\ Len(task[t].saved) = 2
        /\ task[t].saved[1].role = "user" /\ task[t].saved[2].role = "assistant"
        /\ ModelReturned(t)
        /\ Len(task[t].sends) = 1 /\ task[t].sends[1].message = "Hi there"

\* the turns of a request that are user turns holding this text
TurnsWithText(turns, text) ==
    {i \in 1..Len(turns) :
        /\ turns[i].role = "user"
        /\ \E j \in 1..Len(turns[i].parts) : turns[i].parts[j] = TextPart(text)}

\* C31: in the request built for an inbound text message the text of that
\* message occurs exactly once, as the last user turn: the history taken from the
\* cache does not already hold the turn being processed, also when the cache entry
\* is filled from the store during this dispatch, after the inbound row was saved
C31_InboundOnce ==
    \A t \in Running :
        /\ task[t].messages_to_send # <<>>
        /\ task[t].msg.type = "text" /\ Truthy(task[t].msg.body)
        => TurnsWithText(task[t].messages_to_send, task[t].msg.body)
              = {Len(task[t].messages_to_send)}

\* dispatch t handles a message that is not the bot's own and names its sender
IsAddressable(t) ==
    /\ task[t].msg # NoMessage
    /\ ~task[t].msg.is_mine /\ Truthy(task[t].msg.sender_phone)

\* C32: a dispatch of a message that is not the bot's own and has a sender makes
\* exactly one send attempt, the reply or else the generic error message, never
\* two and never both: process_user_message returns no empty string and Step 5
\* never ends the dispatch without a send
C32_ExactlyOneSend ==
    \A t \in Running :
        IsAddressable(t) =>
            /\ Len(task[t].sends) <= 1
            /\ task[t].ai_response_text # ""
            /\ IsDone(t) => Len(task[t].sends) = 1

\* new is old, or old with one user turn and then one model turn after it
GrownByExchange(old, new) ==
    \/ new = old
    \/ /\ Len(new) = Len(old) + 2
       /\ SubSeq(new, 1, Len(old)) = old
       /\ new[Len(old) + 1].role = "user"
       /\ new[Len(old) + 2].role = "model"

\* C33: the session history of a conversation only grows, also under interleaved
\* dispatches: a step leaves it as it is or adds one user turn followed by one
\* model turn, and no turn in it is removed, moved or replaced
C33_HistoryOnlyGrows ==
    [][\A p \in Phones :
          chat_histories[p] # 0 =>
              /\ chat_histories'[p] # 0
              /\ GrownByExchange(lists[chat_histories[p]], lists'[chat_histories'[p]])]_vars

\* the cache entry of the conversation of dispatch t is filled on this step
HydratesNow(t) == task[t].pc = "get_history" /\ task'[t].pc # "get_history"

\* row i is among the 20 rows of its conversation with the highest timestamps:
\* fewer than 20 rows of the conversation carry a higher one
AmongNewest(rows, i) ==
    Cardinality({j \in RowsOf(rows, rows[i].sender_phone) :
                    rows[j].timestamp > rows[i].timestamp}) < 20

\* the turn was made from a text row among those 20
FromNewestRows(turn, rows, phone) ==
    \E i \in RowsOf(rows, phone) :
        /\ rows[i].type = "text" /\ Truthy(rows[i].text_content)
        /\ turn.parts = <<TextPart(rows[i].text_content)>>
        /\ turn.role = (IF rows[i].role = "assistant" THEN "model" ELSE "user")
        /\ AmongNewest(rows, i)

\* C34: a session history just filled from the store holds at most 20 turns, each
\* made from one of the 20 rows of the conversation with the highest timestamps,
\* so no older text row enters it; and once filled it grows by every exchange,
\* past 20 turns, with no cap
C34_HydratesNewestTwenty ==
    [][\A t \in Running :
          /\ HydratesNow(t) =>
                LET phone == task[t].msg.sender_phone
                    hydrated == lists'[chat_histories'[phone]]
                IN  /\ Len(hydrated) <= 20
                    /\ \A k \in 1..Len(hydrated) : FromNewestRows(hydrated[k], db, phone)
          /\ ModelCallEnds(t) /\ AppendsExchange(task'[t].response) =>
                Len(lists'[task[t].history]) = Len(lists[task[t].history]) + 2]_vars

\* a history filled with 20 turns from a table of more rows has grown to 22 turns
C34_Witness ==
    \E t \in Running :
        /\ Cardinality(RowsOf(db, task[t].msg.sender_phone)) > 20
        /\ task[t].history # 0
        /\ Len(HistoryPrefix(t)) = 20
        /\ Len(lists[task[t].history]) = 22

\* the rows of one role among those dispatch t committed
SavedAs(t, role) == {i \in 1..Len(task[t].saved) : task[t].saved[i].role = role}

\* C35: every assistant row a dispatch writes holds the text the same dispatch
\* then hands to the sender as its reply, with type text, no message id and no
\* local path; the generic error message is never written to the store; and a
\* dispatch writes at most one user row and at most one assistant row
C35_AssistantRowIsReply ==
    \A t \in Running :
        /\ Cardinality(SavedAs(t, "user")) <= 1
        /\ Cardinality(SavedAs(t, "assistant")) <= 1
        /\ Len(task[t].saved) = Cardinality(SavedAs(t, "user") \cup SavedAs(t, "assistant"))
        /\ \A i \in SavedAs(t, "assistant") :
              LET row == task[t].saved[i]
              IN  /\ row.type = "text" /\ row.message_id = None /\ row.local_file_path = None
                  /\ row.sender_phone = task[t].msg.sender_phone
                  /\ row.text_content = task[t].ai_response_text
                  /\ row.text_content # APOLOGY
                  /\ task[t].pc \in {"send_reply", "done"}
                  /\ \A k \in 1..Len(task[t].sends) : task[t].sends[k].message = row.text_content
                  /\ IsDone(t) => Len(task[t].sends) = 1
        /\ \A k \in 1..Len(task[t].sends) :
              task[t].sends[k].message = APOLOGY => SavedAs(t, "assistant") = {}
        /\ \A i \in 1..Len(db) : db[i].text_content # APOLOGY

\* a dispatch wrote its user row and its assistant row, and the reply it then sent,
\* which the gateway refused, is the text of the assistant row
C35_Witness ==
    \E t \in Running :
        /\ IsDone(t)
        /\ Len(task[t].saved) = 2
        /\ task[t].saved[2].role = "assistant"
        /\ task[t].sends = <<SendCall(task[t].msg.sender_phone,
                                       task[t].saved[2].text_content, FALSE)>>
        /\ db[Len(db)] = task[t].saved[2]

\* the store is as it was or has one more row, of this conversation
WritesOnlyUnder(phone) ==
    \/ db' = db
    \/ /\ Len(db') = Len(db) + 1
       /\ SubSeq(db', 1, Len(db)) = db
       /\ db'[Len(db')].sender_phone = phone

\* the cache entry of this conversation and the list it names are as they were
EntryKept(phone) ==
    /\ chat_histories'[phone] = chat_histories[phone]
    /\ chat_histories[phone] # 0 =>
          lists'[chat_histories[phone]] = lists[chat_histories[phone]]

\* C36: a dispatch for one conversation, in any interleaving with others, never
\* creates or changes the session history entry of another conversation, never
\* works on the list of another conversation, and writes rows only under its own
\* sender
C36_OtherEntriesUntouched ==
    [][\A t \in Running :
          task'[t] # task[t] =>
              LET own == task'[t].msg.sender_phone
              IN  /\ \A p \in Phones \ {own} :
                        /\ EntryKept(p)
                        /\ task'[t].history # 0 => chat_histories'[p] # task'[t].history
                  /\ WritesOnlyUnder(own)
                  /\ \A i \in 1..Len(task'[t].saved) :
                        task'[t].saved[i].sender_phone = own]_vars

\* two conversations were served side by side: each has its own entry with its own
\* exchange, and the store holds the rows of both
C36_Witness ==
    /\ chat_histories["15551234567"] # 0 /\ chat_histories["15557654321"] # 0
    /\ chat_histories["15551234567"] # chat_histories["15557654321"]
    /\ \A t \in Running : IsDone(t) /\ task[t].outcome = "Success"
    /\ RowsOf(db, "15551234567") # {} /\ RowsOf(db, "15557654321") # {}
    /\ task[1].msg.sender_phone # task[2].msg.sender_phone

\* the service has been called for the request at hand
Delegated == task[1].msg # NoMessage

\* C37: with the service initialized the webhook endpoint answers success for
\* every payload, whatever happens while it is processed: only message_received
\* events that are not the bot's own reach the service, a message whose media
\* download failed reaches it too, without a local file path, and no failure of
\* the dispatch changes the response
C37_WebhookAnswersSuccess ==
    LET p == webhook.payload
    IN  /\ webhook.response \in {"none", "success"}
        /\ webhook.pc = "answered" <=> webhook.response = "success"
        /\ Delegated =>
              /\ p.type = "message_received" /\ ~p.data.is_mine
              /\ [task[1].msg EXCEPT !.local_file_path = None] = p.data
              /\ task[1].msg.local_file_path # None => webhook.download = "saved"
        /\ webhook.download = "failed" =>
              Delegated /\ task[1].msg.local_file_path = None
        /\ webhook.pc = "answered" =>
              IF p.type = "message_received" /\ ~p.data.is_mine
              THEN Delegated /\ IsDone(1)
              ELSE task[1] = IdleTask /\ received = 0 /\ db = <<>>

\* success was answered for an image whose download failed and whose dispatch
\* ended with the model raising and the generic error message not getting out
C37_Witness ==
    /\ webhook.pc = "answered" /\ webhook.response = "success"
    /\ webhook.download = "failed"
    /\ webhook.payload.data.body = "Hello"
    /\ task[1].msg.local_file_path = None
    /\ {"model", "send_apology"} \subseteq task[1].failures

\* C38: the adapter is connected or not, and nothing else; a connect call on a
\* connected adapter raises nothing and leaves the connection and how it came about
\* as they were; a connect call that raises, at the opening or at the table creation,
\* was made on a disconnected adapter and leaves it disconnected; and the adapter is
\* connected exactly when the last call that changed the connection was a connect
\* that raised nothing
C38_ConnectionLifecycle ==
    /\ [](/\ adapter.connection \in {"none", "open"}
          /\ adapter.connection = "open" <=>
                adapter.changer = "connect" /\ adapter.changer_raised = "none")
    /\ [][AdapterCalled("connect") =>
             /\ adapter.connection = "open" =>
                   /\ adapter'.connection = "open"
                   /\ adapter'.how = adapter.how
                   /\ adapter'.raised = "none"
                   /\ adapter'.changer = adapter.changer
             /\ adapter'.raised # "none" =>
                   /\ adapter.connection = "none"
                   /\ adapter'.connection = "none"
                   /\ adapter'.raised = "Exception"
                   /\ adapter'.how \in {"open_failed", "table_failed"}
             /\ adapter.connection = "none" /\ adapter'.raised = "none" =>
                   adapter'.connection = "open"
             /\ db' = db]_vars

\* connected, connected again, closed, and then a connect failed at the table creation
C38_Witness ==
    /\ adapter.calls = <<"connect", "connect", "close", "connect">>
    /\ adapter.how = "table_failed"
    /\ adapter.raised = "Exception"
    /\ adapter.connection = "none"
    /\ adapter.changer = "close"

====
